---------------------------- MODULE Spec2Model ----------------------------
(***************************************************************************)
(* wurlitzer: capture of C-level stdout/stderr through dup2'ed pipes.      *)
(*                                                                         *)
(* The model follows src/wurlitzer.py: the process descriptor table, the   *)
(* capture pipes installed by Wurlitzer._setup_pipe, the forwarder thread  *)
(* started by Wurlitzer.__enter__, the teardown of Wurlitzer.__exit__, and *)
(* the entry points capture / redirect_everything_to_sys with the sink     *)
(* pipes (buffered writer + kernel pipe + reader handle) capture creates.  *)
(***************************************************************************)
EXTENDS Integers, Sequences, FiniteSets, TLC

(* ------------------------------ bounds -------------------------------- *)
\* number of native write(2) calls issued by the caller's region
MaxWrites == 2
\* capacity of a kernel pipe buffer, in bytes
PipeCap == 2
\* capacity of the io.BufferedWriter that os.fdopen(w, 'wb') creates
BufSize == 2
\* size argument of os.read(pipe, 1024), scaled to the pipe capacity
ChunkSize == 2
\* highest descriptor number of the process descriptor table
MaxFd == 11

(* ----------------------------- channels -------------------------------- *)
Channels == <<"stdout", "stderr">>
ChannelSet == {"stdout", "stderr"}

\* sys.__stdout__.fileno() / sys.__stderr__.fileno()
RealFd(name) == IF name = "stdout" THEN 1 ELSE 2

(* bytes used by the native writers: an ASCII byte, a UTF-8 lead byte of a *)
(* two-byte sequence and a UTF-8 continuation byte; `stdio` is the ASCII   *)
(* byte that native code hands to libc's buffered streams                  *)
Byte == [ascii |-> 97, lead |-> 195, cont |-> 169, stdio |-> 98]
\* U+FFFD, what the 'replace' error handler substitutes
ReplacementChar == 65533

\* a single write larger than the pipe capacity
BigPayload == [i \in 1..(PipeCap + 1) |-> Byte.ascii]
Payloads == {<<Byte.lead>>, <<Byte.cont>>, BigPayload}

(* ------------------------------ helpers -------------------------------- *)
Min(a, b) == IF a < b THEN a ELSE b
Take(s, n) == SubSeq(s, 1, Min(n, Len(s)))
Drop(s, n) == SubSeq(s, Min(n, Len(s)) + 1, Len(s))
\* list.remove(x): removes the first occurrence
RECURSIVE ListRemove(_, _)
ListRemove(s, x) ==
    IF s = <<>> THEN <<>>
    ELSE IF Head(s) = x THEN Tail(s)
    ELSE <<Head(s)>> \o ListRemove(Tail(s), x)

(* --------------------------- descriptor table -------------------------- *)
Fds == 0..MaxFd
IsOpen(t, fd) == t[fd] # "free"
\* the kernel hands out the lowest free descriptor number
LowestFree(t) == CHOOSE fd \in Fds : t[fd] = "free" /\ \A g \in Fds : g < fd => t[g] # "free"
FdDup2(t, src, dst) == [t EXCEPT ![dst] = t[src]]
FdClose(t, fd) == [t EXCEPT ![fd] = "free"]

\* the open-file objects behind the ends of the pipes
\* the capture pipes: one per channel of the session, and "inner" for the
\* stdout pipe of a second session started while the first is active
PipeIds == ChannelSet \cup {"inner"}
CapR(id) == CASE id = "stdout" -> "cap_r_stdout"
              [] id = "stderr" -> "cap_r_stderr"
              [] OTHER -> "cap2_r_stdout"
CapW(id) == CASE id = "stdout" -> "cap_w_stdout"
              [] id = "stderr" -> "cap_w_stderr"
              [] OTHER -> "cap2_w_stdout"
SnkR(p) == IF p = "PO" THEN "snk_r_PO" ELSE "snk_r_PE"
SnkW(p) == IF p = "PO" THEN "snk_w_PO" ELSE "snk_w_PE"
CapOfR(obj) == CASE obj = "cap_r_stdout" -> "stdout"
                [] obj = "cap_r_stderr" -> "stderr"
                [] OTHER -> "inner"
OrigTarget(name) == IF name = "stdout" THEN "tty_out" ELSE "tty_err"
\* a pipe reports end-of-stream once no descriptor refers to its write end
WriteEndOpen(t, wobj) == \E fd \in Fds : t[fd] = wobj

(* ------------------------------ decoding ------------------------------- *)
\* items in a capture pipe are <<origin channel, byte>>; items delivered to
\* a sink are <<origin channel, form, value>>, form "b" (bytes) or "t" (text)
IsAscii(b) == b < 128
IsLead(b) == b >= 192 /\ b < 224
IsCont(b) == b >= 128 /\ b < 192
CodePoint(lead, cont) == (lead - 192) * 64 + (cont - 128)
Raw(chunk) == [i \in 1..Len(chunk) |-> <<chunk[i][1], "b", chunk[i][2]>>]

\* bytes.decode(encoding, 'replace') for UTF-8
RECURSIVE DecodeReplace(_)
DecodeReplace(s) ==
    IF s = <<>> THEN <<>>
    ELSE LET o == s[1][1]
             b == s[1][2]
         IN  IF IsAscii(b) THEN <<<<o, "t", b>>>> \o DecodeReplace(Tail(s))
             ELSE IF IsLead(b) /\ Len(s) >= 2 /\ IsCont(s[2][2])
                  THEN <<<<o, "t", CodePoint(b, s[2][2])>>>> \o DecodeReplace(Tail(Tail(s)))
             ELSE <<<<o, "t", ReplacementChar>>>> \o DecodeReplace(Tail(s))

\* whether a strict UTF-8 decoder accepts the bytes
RECURSIVE WellFormed(_)
WellFormed(s) ==
    IF s = <<>> THEN TRUE
    ELSE LET b == s[1][3]
         IN  IF IsAscii(b) THEN WellFormed(Tail(s))
             ELSE IF IsLead(b) /\ Len(s) >= 2 /\ IsCont(s[2][3])
                  THEN WellFormed(Tail(Tail(s)))
             ELSE FALSE

(* ------------------------------- state --------------------------------- *)
VARIABLES
    cfg,        \* the call being made: entry point and its arguments
    pc,         \* position of the caller's thread
    exc,        \* the caller's region raised
    propagated, \* the error left the with-statement / capture
    fdt,        \* process descriptor table: fd -> open-file object or "free"
    wsink,      \* Wurlitzer._stdout / Wurlitzer._stderr
    encoding,   \* Wurlitzer.encoding
    save_fds,   \* Wurlitzer._save_fds: name -> fd (-1: no entry)
    real_fds,   \* Wurlitzer._real_fds, in insertion order: <<name, fd>>
    handle,     \* the pair of handles returned to the caller
    pipefd,     \* descriptors wrapped by capture's file objects: p -> [r, w]
    closes,     \* number of close() calls on stdout_w / stderr_w
    xi,         \* loop index of the for-loops of __exit__
    pipes,      \* forwarder: list of read-end descriptors still polled
    names,      \* forwarder: read-end descriptor -> channel name
    ready,      \* forwarder: the rest of the list r returned by select
    wpc,        \* position of the forwarder thread
    whold,      \* data the forwarder is writing into a buffered writer
    wtarget,    \* the buffered writer the forwarder is writing to
    cpipe,      \* kernel buffer of each capture pipe
    written,    \* bytes written to each real descriptor during the session
    relayed,    \* data handed by the forwarder to each channel's handler
    csink,      \* what each caller-supplied sink has been written
    bwbuf,      \* buffer of each io.BufferedWriter (stdout_w / stderr_w)
    spipe,      \* kernel buffer of each sink pipe
    rd,         \* bytes the caller's read has taken out of each sink pipe
    eof,        \* the caller's read of a returned handle reached end-of-stream
    readErr,    \* reading a returned handle raised UnicodeDecodeError
    wr,         \* rest of the native write in progress
    wfd,        \* descriptor of the native write in progress
    nw,         \* number of native writes issued
    fault,      \* the system call or thread step that failed: <<step, channel>>
    libcbuf,    \* libc's buffer of c_stdout_p / c_stderr_p: bytes not yet written
    printed,    \* the bytes native code has handed to libc's buffered streams
    inner       \* a second Wurlitzer(stdout=...) entered inside the first

vars == <<cfg, pc, exc, propagated, fdt, wsink, encoding, save_fds, real_fds,
          handle, pipefd, closes, xi, pipes, names, ready, wpc, whold, wtarget,
          cpipe, written, relayed, csink, bwbuf, spipe, rd, eof, readErr,
          wr, wfd, nw, fault, libcbuf, printed, inner>>

callerVars == <<pc, exc, propagated, save_fds, real_fds, handle, pipefd, closes,
                xi, wr, wfd, nw>>
workerVars == <<pipes, names, ready, wpc, whold, wtarget, relayed>>
setupVars == <<cfg, wsink, encoding>>
readerVars == <<rd, eof, readErr>>
extVars == <<fault, printed, inner>>

\* no step has failed
NoFault == <<"none", "none">>

SinkPipes == {"PO", "PE"}
CallerSinks == {"A", "B"}

(* the calls the model makes *)
CaptureCalls ==
    [entry : {"capture"}, out : {"none", "A", "PIPE"},
     err : {"none", "B", "STDOUT", "PIPE"}, enc : {"none", "utf8"}]
DirectCalls ==
    [entry : {"wurlitzer"}, out : {"none", "A"},
     err : {"none", "B", "STDOUT"}, enc : {"none", "utf8"}]
ForeverCalls ==
    [entry : {"forever"}, out : {"A"}, err : {"B"}, enc : {"none", "utf8"}]
Calls == CaptureCalls \cup DirectCalls \cup ForeverCalls

Init ==
    /\ cfg \in Calls
    /\ pc = "start"
    /\ exc = FALSE
    /\ propagated = FALSE
    /\ fdt = [fd \in Fds |-> CASE fd = 0 -> "tty_in"
                               [] fd = 1 -> "tty_out"
                               [] fd = 2 -> "tty_err"
                               [] OTHER -> "free"]
    /\ wsink = [n \in ChannelSet |-> "none"]
    /\ encoding = "none"
    /\ save_fds = [n \in ChannelSet |-> -1]
    /\ real_fds = <<>>
    /\ handle = [n \in ChannelSet |-> "None"]
    /\ pipefd = [p \in SinkPipes |-> [r |-> -1, w |-> -1]]
    /\ closes = [p \in SinkPipes |-> 0]
    /\ xi = 1
    /\ pipes = <<>>
    /\ names = [fd \in Fds |-> "none"]
    /\ ready = <<>>
    /\ wpc = "unstarted"
    /\ whold = <<>>
    /\ wtarget = "none"
    /\ cpipe = [id \in PipeIds |-> <<>>]
    /\ written = [n \in ChannelSet |-> <<>>]
    /\ relayed = [n \in ChannelSet |-> <<>>]
    /\ csink = [s \in CallerSinks |-> <<>>]
    /\ bwbuf = [p \in SinkPipes |-> <<>>]
    /\ spipe = [p \in SinkPipes |-> <<>>]
    /\ rd = [p \in SinkPipes |-> <<>>]
    /\ eof = [p \in SinkPipes |-> FALSE]
    /\ readErr = FALSE
    /\ wr = <<>>
    /\ wfd = -1
    /\ nw = 0
    /\ fault = NoFault
    /\ libcbuf = [n \in ChannelSet |-> <<>>]
    /\ printed = [n \in ChannelSet |-> <<>>]
    /\ inner = [pc |-> "off", wpc |-> "unstarted", save_fd |-> -1,
                pipes |-> <<>>, ready |-> <<>>]


(* --------------------- capture(): sinks and handles --------------------- *)
\* the pair returned by os.pipe(): the table afterwards and the two numbers
OpenPipe(t, robj, wobj) ==
    LET r  == LowestFree(t)
        t1 == [t EXCEPT ![r] = robj]
        w  == LowestFree(t1)
    IN  [t |-> [t1 EXCEPT ![w] = wobj], r |-> r, w |-> w]

StdoutPipe(c) == c.entry = "capture" /\ c.out = "PIPE"
StderrPipe(c) == c.entry = "capture" /\ c.err = "PIPE"
\* stdout_w / stderr_w of capture
StdoutW(c) == IF c.out = "PIPE" THEN "PO" ELSE c.out
StderrW(c) ==
    IF c.err = "STDOUT" THEN StdoutW(c)
    ELSE IF c.err = "PIPE" THEN "PE" ELSE c.err
\* stdout_r / stderr_r of capture
StdoutR(c) ==
    IF c.out = "PIPE" THEN (IF c.enc # "none" THEN "text" ELSE "bytes")
    ELSE IF c.out = "none" THEN "None" ELSE c.out
StderrR(c) ==
    IF c.err = "STDOUT" THEN "None"
    ELSE IF c.err = "PIPE" THEN (IF c.enc # "none" THEN "text" ELSE "bytes")
    ELSE IF c.err = "none" THEN "None" ELSE c.err
CaptureEncoding(c) == IF StdoutPipe(c) \/ StderrPipe(c) THEN "none" ELSE c.enc

\* mutant: stderr=STDOUT is not resolved to the stdout stream
InitStderrNoAlias(out, err) == err
\* Wurlitzer.__init__: self._stderr
InitStderr(out, err) == IF err = "STDOUT" THEN out ELSE err

\* the sink pipe behind the handle returned for a channel
PipeOf(name) == IF name = "stdout" THEN "PO" ELSE "PE"

(* capture up to the with-statement, or Wurlitzer(...) called directly *)
Construct ==
    /\ pc = "start"
    /\ LET viaCapture == cfg.entry \in {"capture", "forever"}
           p1 == IF StdoutPipe(cfg) THEN OpenPipe(fdt, SnkR("PO"), SnkW("PO"))
                 ELSE [t |-> fdt, r |-> -1, w |-> -1]
           p2 == IF StderrPipe(cfg) THEN OpenPipe(p1.t, SnkR("PE"), SnkW("PE"))
                 ELSE [t |-> p1.t, r |-> -1, w |-> -1]
           out == IF viaCapture THEN StdoutW(cfg) ELSE cfg.out
           err == IF viaCapture THEN StderrW(cfg) ELSE cfg.err
       IN  /\ fdt' = p2.t
           /\ pipefd' = [pipefd EXCEPT !["PO"] = [r |-> p1.r, w |-> p1.w],
                                       !["PE"] = [r |-> p2.r, w |-> p2.w]]
           /\ wsink' = [wsink EXCEPT !["stdout"] = out,
                                     !["stderr"] = InitStderr(out, err)]
           /\ encoding' = IF viaCapture THEN CaptureEncoding(cfg) ELSE cfg.enc
    /\ pc' = "enter_stdout"
    /\ UNCHANGED <<cfg, exc, propagated, save_fds, real_fds, handle, closes, xi,
                   wr, wfd, nw, cpipe, written, csink, bwbuf, spipe>>
    /\ UNCHANGED <<workerVars, readerVars>>
    /\ UNCHANGED <<extVars, libcbuf>>

(* ------------------------- Wurlitzer.__enter__ -------------------------- *)
\* mutant: every pipe is bound onto descriptor 1
BindTargetStdout(name) == 1
\* the descriptor the pipe's write end is bound onto by os.dup2(pipe_in, real_fd)
BindTarget(name) == RealFd(name)

\* Wurlitzer._setup_pipe(name): table afterwards, saved fd, read end.  The
\* read end is made non-blocking; the forwarder reads a pipe only after select
\* has reported it readable, so no read of the model waits.
SetupPipeAs(t, name, id) ==
    LET real_fd == RealFd(name)
        save_fd == LowestFree(t)
        t1 == [t EXCEPT ![save_fd] = t[real_fd]]
        pp == OpenPipe(t1, CapR(id), CapW(id))
        t2 == FdDup2(pp.t, pp.w, BindTarget(name))
        t3 == FdClose(t2, pp.w)
    IN  [t |-> t3, save_fd |-> save_fd, real_fd |-> real_fd, pipe_out |-> pp.r]
\* the pipe of channel `name` of the first session is the pipe `name`
SetupPipe(t, name) == SetupPipeAs(t, name, name)

NextEnterPc(name) == IF name = "stdout" THEN "enter_stderr" ELSE "enter_thread"

\* `if self._stdout:` / `if self._stderr:` with the call of _setup_pipe
EnterChannel(name) ==
    /\ pc = (IF name = "stdout" THEN "enter_stdout" ELSE "enter_stderr")
    /\ IF wsink[name] # "none"
       THEN LET sp == SetupPipe(fdt, name)
            IN  /\ fdt' = sp.t
                /\ save_fds' = [save_fds EXCEPT ![name] = sp.save_fd]
                /\ real_fds' = Append(real_fds, <<name, sp.real_fd>>)
                /\ pipes' = Append(pipes, sp.pipe_out)
                /\ names' = [names EXCEPT ![sp.pipe_out] = name]
       ELSE UNCHANGED <<fdt, save_fds, real_fds, pipes, names>>
    /\ pc' = NextEnterPc(name)
    /\ UNCHANGED <<exc, propagated, handle, pipefd, closes, xi, wr, wfd, nw>>
    /\ UNCHANGED <<ready, wpc, whold, wtarget, relayed>>
    /\ UNCHANGED <<setupVars, readerVars, cpipe, written, csink, bwbuf, spipe>>
    /\ UNCHANGED <<extVars, libcbuf>>

\* thread.start() and the return of the handle
EnterStart ==
    /\ pc = "enter_thread"
    /\ wpc' = "flush"
    /\ handle' = IF cfg.entry = "wurlitzer"
                 THEN [n \in ChannelSet |->
                         IF wsink[n] = "none" THEN "None" ELSE wsink[n]]
                 ELSE [n \in ChannelSet |->
                         IF n = "stdout" THEN StdoutR(cfg) ELSE StderrR(cfg)]
    /\ pc' = "body"
    /\ UNCHANGED <<exc, propagated, save_fds, real_fds, pipefd, closes, xi,
                   wr, wfd, nw, fdt>>
    /\ UNCHANGED <<pipes, names, ready, whold, wtarget, relayed>>
    /\ UNCHANGED <<setupVars, readerVars, cpipe, written, csink, bwbuf, spipe>>
    /\ UNCHANGED <<extVars, libcbuf>>

(* ------------------------ the caller's region --------------------------- *)
IsCapW(obj) == obj \in {CapW(id) : id \in PipeIds}
CapOfW(obj) == CASE obj = "cap_w_stdout" -> "stdout"
                [] obj = "cap_w_stderr" -> "stderr"
                [] OTHER -> "inner"
Space(q) == PipeCap - Len(q)

\* write(2) of `items` on a descriptor bound to `obj`: what enters the pipe now
\* (a blocking write to a pipe proceeds as room appears), and the rest
PushNow(obj, items) ==
    IF IsCapW(obj) THEN Take(items, Space(cpipe[CapOfW(obj)])) ELSE items
PushRest(obj, items) ==
    IF IsCapW(obj) THEN Drop(items, Space(cpipe[CapOfW(obj)])) ELSE <<>>
PipeAfterPush(obj, items) ==
    IF IsCapW(obj)
    THEN [cpipe EXCEPT ![CapOfW(obj)] = @ \o PushNow(obj, items)]
    ELSE cpipe

\* native code calls write(fd, data) on a real descriptor
NativeWrite(name, data) ==
    /\ pc = "body"
    /\ nw < MaxWrites
    /\ LET fd == RealFd(name)
           obj == fdt[fd]
           items == [i \in 1..Len(data) |-> <<name, data[i]>>]
       IN  /\ obj # "free"
           /\ cpipe' = PipeAfterPush(obj, items)
           /\ wr' = PushRest(obj, items)
           /\ wfd' = IF PushRest(obj, items) = <<>> THEN -1 ELSE fd
           /\ pc' = IF PushRest(obj, items) = <<>> THEN "body" ELSE "write"
    /\ written' = [written EXCEPT ![name] = @ \o data]
    /\ nw' = nw + 1
    /\ UNCHANGED <<exc, propagated, save_fds, real_fds, handle, pipefd, closes, xi, fdt>>
    /\ UNCHANGED <<workerVars, setupVars, readerVars, csink, bwbuf, spipe>>
    /\ UNCHANGED <<extVars, libcbuf>>

\* native code calls a buffered stdio function (printf, fputs, putc) on
\* stdout or stderr: the byte goes into libc's buffer of the stream
NativePrintf(name) ==
    /\ pc = "body"
    /\ nw < MaxWrites
    /\ libcbuf' = [libcbuf EXCEPT ![name] = Append(@, Byte.stdio)]
    /\ printed' = [printed EXCEPT ![name] = Append(@, Byte.stdio)]
    /\ nw' = nw + 1
    /\ UNCHANGED <<pc, exc, propagated, save_fds, real_fds, handle, pipefd, closes,
                   xi, wr, wfd, fdt, written, cpipe, fault, inner>>
    /\ UNCHANGED <<workerVars, setupVars, readerVars, csink, bwbuf, spipe>>

\* the blocked write(2) continues once the forwarder has made room
WriteResume ==
    /\ pc = "write"
    /\ LET obj == fdt[wfd]
       IN  /\ IsCapW(obj)
           /\ Space(cpipe[CapOfW(obj)]) > 0
           /\ cpipe' = PipeAfterPush(obj, wr)
           /\ wr' = PushRest(obj, wr)
           /\ wfd' = IF PushRest(obj, wr) = <<>> THEN -1 ELSE wfd
           /\ pc' = IF PushRest(obj, wr) = <<>> THEN "body" ELSE "write"
    /\ UNCHANGED <<exc, propagated, save_fds, real_fds, handle, pipefd, closes, xi,
                   nw, fdt, written>>
    /\ UNCHANGED <<workerVars, setupVars, readerVars, csink, bwbuf, spipe>>
    /\ UNCHANGED <<extVars, libcbuf>>

\* mutant: teardown only on a normal exit of the region
RegionExitNoCleanup(raised) == IF raised THEN "done" ELSE "x_flush"
\* where control goes when the region under `with w:` is left; the with
\* statement calls w.__exit__ on a normal and on an exceptional exit alike
RegionExit(raised) == "x_flush"

\* the region returns normally
Leave ==
    /\ pc = "body"
    /\ cfg.entry # "forever"
    /\ pc' = RegionExit(FALSE)
    /\ UNCHANGED <<exc, propagated, save_fds, real_fds, handle, pipefd, closes, xi,
                   wr, wfd, nw, fdt, written, cpipe>>
    /\ UNCHANGED <<workerVars, setupVars, readerVars, csink, bwbuf, spipe>>
    /\ UNCHANGED <<extVars, libcbuf>>

\* the region raises
Raise ==
    /\ pc = "body"
    /\ cfg.entry # "forever"
    /\ exc' = TRUE
    /\ pc' = RegionExit(TRUE)
    /\ UNCHANGED <<propagated, save_fds, real_fds, handle, pipefd, closes, xi,
                   wr, wfd, nw, fdt, written, cpipe>>
    /\ UNCHANGED <<workerVars, setupVars, readerVars, csink, bwbuf, spipe>>
    /\ UNCHANGED <<extVars, libcbuf>>

(* ------------------------------ forwarder ------------------------------- *)
\* select: a read end is readable when it holds data or is at end-of-stream
Readable(fd) ==
    /\ fdt[fd] \in {CapR(id) : id \in PipeIds}
    /\ \/ cpipe[CapOfR(fdt[fd])] # <<>>
       \/ ~WriteEndOpen(fdt, CapW(CapOfR(fdt[fd])))
SelectReady(ps) == SelectSeq(ps, Readable)

\* mutant: the read returns one byte less than it takes out of the pipe
ReadDataShort(q) == Take(q, ChunkSize - 1)
\* os.read(pipe, 1024): the data returned, and what stays in the pipe
ReadData(q) == Take(q, ChunkSize)
ReadRest(q) == Drop(q, ChunkSize)

\* Wurlitzer._decode
Decode(data) == IF encoding # "none" THEN DecodeReplace(data) ELSE Raw(data)

\* mutant: every handler writes to the stdout stream
HandlerSinkStdout(name) == wsink["stdout"]
\* getattr(self, '_handle_%s' % name): the stream the handler writes to
HandlerSink(name) == wsink[name]

\* position of the forwarder after the body of `for pipe in r` has run
AfterRead(rest, ps) ==
    IF rest # <<>> THEN "read"
    ELSE IF ps = <<>> THEN "done" ELSE "flush"

\* mutant: the fflush calls are left out
FlushSkipped == TRUE
\* libc.fflush(c_stdout_p); libc.fflush(c_stderr_p) have returned: both
\* buffers are empty
Flushed == \A n \in ChannelSet : libcbuf[n] = <<>>

\* the stream fflush is writing out: stdout is flushed before stderr
PendingName == IF libcbuf["stdout"] # <<>> THEN "stdout" ELSE "stderr"

\* one write(2) issued by fflush on the real descriptor of the pending stream;
\* on a full pipe the write waits for room
LibcWrite ==
    LET name == PendingName
        obj == fdt[RealFd(name)]
        items == [i \in 1..Len(libcbuf[name]) |-> <<name, libcbuf[name][i]>>]
        n == Len(PushNow(obj, items))
    IN  /\ obj # "free"
        /\ n > 0
        /\ cpipe' = PipeAfterPush(obj, items)
        /\ libcbuf' = [libcbuf EXCEPT ![name] = Drop(@, n)]
        /\ written' = [written EXCEPT ![name] = @ \o Take(libcbuf[name], n)]

\* libc.fflush(c_stdout_p); libc.fflush(c_stderr_p) of the forwarder
WFlush ==
    /\ wpc = "flush"
    /\ IF Flushed
       THEN /\ wpc' = "select"
            /\ UNCHANGED <<cpipe, written, libcbuf>>
       ELSE /\ LibcWrite
            /\ wpc' = wpc
    /\ UNCHANGED <<pipes, names, ready, whold, wtarget, relayed>>
    /\ UNCHANGED <<callerVars, setupVars, readerVars, fdt, csink, bwbuf, spipe>>
    /\ UNCHANGED extVars

\* select.select(pipes, [], [], flush_interval); `if not r: continue`
WSelect ==
    /\ wpc = "select"
    /\ ready' = SelectReady(pipes)
    /\ wpc' = IF SelectReady(pipes) = <<>> THEN "flush" ELSE "read"
    /\ UNCHANGED <<pipes, names, whold, wtarget, relayed>>
    /\ UNCHANGED <<callerVars, setupVars, readerVars, fdt, cpipe, written, csink,
                   bwbuf, spipe>>
    /\ UNCHANGED <<extVars, libcbuf>>

\* one iteration of `for pipe in r`: os.read, then pipes.remove or handler(data)
WRead ==
    /\ wpc = "read"
    /\ ready # <<>>
    /\ LET fd == Head(ready)
           name == names[fd]
           c == CapOfR(fdt[fd])
           data == ReadData(cpipe[c])
           sink == HandlerSink(name)
           out == Decode(data)
           blocks == /\ data # <<>>
                     /\ sink \in SinkPipes
                     /\ Len(bwbuf[sink]) + Len(out) > BufSize
       IN  /\ cpipe' = [cpipe EXCEPT ![c] = ReadRest(@)]
           /\ pipes' = IF data = <<>> THEN ListRemove(pipes, fd) ELSE pipes
           /\ relayed' = [relayed EXCEPT ![name] = @ \o data]
           /\ csink' = IF data # <<>> /\ sink \in CallerSinks
                       THEN [csink EXCEPT ![sink] = @ \o out] ELSE csink
           /\ bwbuf' = IF data # <<>> /\ sink \in SinkPipes /\ ~blocks
                       THEN [bwbuf EXCEPT ![sink] = @ \o out] ELSE bwbuf
           /\ whold' = IF blocks THEN out ELSE whold
           /\ wtarget' = IF blocks THEN sink ELSE wtarget
           /\ ready' = Tail(ready)
           /\ wpc' = IF blocks THEN "bwwrite"
                     ELSE AfterRead(Tail(ready),
                                    IF data = <<>> THEN ListRemove(pipes, fd) ELSE pipes)
    /\ UNCHANGED names
    /\ UNCHANGED <<callerVars, setupVars, readerVars, fdt, written, spipe>>
    /\ UNCHANGED <<extVars, libcbuf>>

\* BufferedWriter.write of data that does not fit: the buffer is flushed to the
\* sink pipe with blocking writes, data larger than the buffer is written
\* through, and what is left is buffered
WBufferedWrite ==
    /\ wpc = "bwwrite"
    /\ LET p == wtarget
           room == PipeCap - Len(spipe[p])
       IN  IF bwbuf[p] # <<>>
           THEN /\ room > 0
                /\ spipe' = [spipe EXCEPT ![p] = @ \o Take(bwbuf[p], room)]
                /\ bwbuf' = [bwbuf EXCEPT ![p] = Drop(@, room)]
                /\ UNCHANGED <<whold, wtarget, wpc>>
           ELSE IF Len(whold) > BufSize
           THEN /\ room > 0
                /\ spipe' = [spipe EXCEPT ![p] = @ \o Take(whold, room)]
                /\ whold' = Drop(whold, room)
                /\ UNCHANGED <<bwbuf, wtarget, wpc>>
           ELSE /\ bwbuf' = [bwbuf EXCEPT ![p] = @ \o whold]
                /\ whold' = <<>>
                /\ wtarget' = "none"
                /\ wpc' = AfterRead(ready, pipes)
                /\ UNCHANGED spipe
    /\ UNCHANGED <<pipes, names, ready, relayed>>
    /\ UNCHANGED <<callerVars, setupVars, readerVars, fdt, cpipe, written, csink>>
    /\ UNCHANGED <<extVars, libcbuf>>

(* ------------------------- Wurlitzer.__exit__ --------------------------- *)
\* libc.fflush(c_stdout_p); libc.fflush(c_stderr_p)
ExitFlush ==
    /\ pc = "x_flush"
    /\ IF Flushed
       THEN /\ pc' = "x_close"
            /\ xi' = 1
            /\ UNCHANGED <<cpipe, written, libcbuf>>
       ELSE /\ LibcWrite
            /\ UNCHANGED <<pc, xi>>
    /\ UNCHANGED <<exc, propagated, save_fds, real_fds, handle, pipefd, closes,
                   wr, wfd, nw>>
    /\ UNCHANGED <<workerVars, setupVars, readerVars, fdt, csink, bwbuf, spipe>>
    /\ UNCHANGED extVars

\* `for real_fd in self._real_fds.values(): os.close(real_fd)`, one iteration
ExitClose ==
    /\ pc = "x_close"
    /\ xi <= Len(real_fds)
    /\ fdt' = FdClose(fdt, real_fds[xi][2])
    /\ xi' = xi + 1
    /\ UNCHANGED <<pc, exc, propagated, save_fds, real_fds, handle, pipefd, closes,
                   wr, wfd, nw>>
    /\ UNCHANGED <<workerVars, setupVars, readerVars, cpipe, written, csink,
                   bwbuf, spipe>>
    /\ UNCHANGED <<extVars, libcbuf>>

\* mutant: the join is left out
JoinedAtOnce == TRUE
\* threading.Thread.join returns once the thread has terminated
Joined == wpc = "done"

\* self.thread.join(): returns once the forwarder has left its loop
ExitJoin ==
    /\ pc = "x_close"
    /\ xi > Len(real_fds)
    /\ Joined
    /\ pc' = "x_restore"
    /\ xi' = 1
    /\ UNCHANGED <<exc, propagated, save_fds, real_fds, handle, pipefd, closes,
                   wr, wfd, nw>>
    /\ UNCHANGED <<workerVars, setupVars, readerVars, fdt, cpipe, written, csink,
                   bwbuf, spipe>>
    /\ UNCHANGED <<extVars, libcbuf>>

\* mutant: the arguments of dup2 swapped
RestoreSwapped(t, save_fd, real_fd) == FdDup2(t, real_fd, save_fd)
\* os.dup2(save_fd, real_fd): the table afterwards
Restore(t, save_fd, real_fd) == FdDup2(t, save_fd, real_fd)

\* `os.dup2(save_fd, real_fd)` of the restoring loop
ExitDup2 ==
    /\ pc = "x_restore"
    /\ xi <= Len(real_fds)
    /\ fdt' = Restore(fdt, save_fds[real_fds[xi][1]], real_fds[xi][2])
    /\ pc' = "x_closesave"
    /\ UNCHANGED <<exc, propagated, save_fds, real_fds, handle, pipefd, closes, xi,
                   wr, wfd, nw>>
    /\ UNCHANGED <<workerVars, setupVars, readerVars, cpipe, written, csink,
                   bwbuf, spipe>>
    /\ UNCHANGED <<extVars, libcbuf>>

\* `os.close(save_fd)` of the restoring loop
ExitCloseSave ==
    /\ pc = "x_closesave"
    /\ fdt' = FdClose(fdt, save_fds[real_fds[xi][1]])
    /\ xi' = xi + 1
    /\ pc' = "x_restore"
    /\ UNCHANGED <<exc, propagated, save_fds, real_fds, handle, pipefd, closes,
                   wr, wfd, nw>>
    /\ UNCHANGED <<workerVars, setupVars, readerVars, cpipe, written, csink,
                   bwbuf, spipe>>
    /\ UNCHANGED <<extVars, libcbuf>>

\* self._finish_handle() and the return of __exit__ (None: nothing suppressed)
ExitFinish ==
    /\ pc = "x_restore"
    /\ xi > Len(real_fds)
    /\ pc' = IF cfg.entry = "wurlitzer" THEN "done" ELSE "fin_stdout"
    /\ propagated' = IF cfg.entry = "wurlitzer" THEN exc ELSE propagated
    /\ UNCHANGED <<exc, save_fds, real_fds, handle, pipefd, closes, xi,
                   wr, wfd, nw>>
    /\ UNCHANGED <<workerVars, setupVars, readerVars, fdt, cpipe, written, csink,
                   bwbuf, spipe>>
    /\ UNCHANGED <<extVars, libcbuf>>

(* ------------------------- capture: finally ----------------------------- *)
\* mutant: the finally clause closes stdout_w only
FinallyClosesStdoutOnly(c, name) == name = "stdout" /\ StdoutPipe(c)
\* whether the finally clause closes the writer of a channel
FinallyCloses(c, name) == IF name = "stdout" THEN StdoutPipe(c) ELSE StderrPipe(c)

\* `if stdout_pipe: stdout_w.close()` / `if stderr_pipe: stderr_w.close()`;
\* close() flushes the buffer with blocking writes and then closes the fd
FinallyClose(name) ==
    /\ pc = (IF name = "stdout" THEN "fin_stdout" ELSE "fin_stderr")
    /\ LET p == PipeOf(name)
           room == PipeCap - Len(spipe[p])
       IN  IF FinallyCloses(cfg, name) /\ bwbuf[p] # <<>>
           THEN /\ room > 0
                /\ spipe' = [spipe EXCEPT ![p] = @ \o Take(bwbuf[p], room)]
                /\ bwbuf' = [bwbuf EXCEPT ![p] = Drop(@, room)]
                /\ UNCHANGED <<pc, fdt, closes, propagated>>
           ELSE /\ fdt' = IF FinallyCloses(cfg, name)
                          THEN FdClose(fdt, pipefd[p].w) ELSE fdt
                /\ closes' = IF FinallyCloses(cfg, name)
                             THEN [closes EXCEPT ![p] = @ + 1] ELSE closes
                /\ pc' = IF name = "stdout" THEN "fin_stderr" ELSE "done"
                /\ propagated' = IF name = "stdout" THEN propagated ELSE exc
                /\ UNCHANGED <<spipe, bwbuf>>
    /\ UNCHANGED <<exc, save_fds, real_fds, handle, pipefd, xi, wr, wfd, nw>>
    /\ UNCHANGED <<workerVars, setupVars, readerVars, cpipe, written, csink>>
    /\ UNCHANGED <<extVars, libcbuf>>

(* -------------------- redirect_everything_to_sys ------------------------ *)
\* redirect_to_sys(encoding).__enter__() leaves the generator-based context
\* manager unreferenced; when it is collected the generator is closed:
\* GeneratorExit is raised at the yield, so `with w:` runs w.__exit__ and the
\* finally clause follows.  The collection may happen at any later time.
Finalize ==
    /\ pc = "body"
    /\ cfg.entry = "forever"
    /\ pc' = RegionExit(TRUE)
    /\ UNCHANGED <<exc, propagated, save_fds, real_fds, handle, pipefd, closes, xi,
                   wr, wfd, nw, fdt, written, cpipe>>
    /\ UNCHANGED <<workerVars, setupVars, readerVars, csink, bwbuf, spipe>>
    /\ UNCHANGED <<extVars, libcbuf>>

(* ------------------- the caller reads a returned handle ----------------- *)
\* io.TextIOWrapper(stdout_r, encoding=encoding): errors defaults to 'strict'
WrapperRaises(form, data) == form = "text" /\ ~WellFormed(data)

\* handle.read() after the capture: reads the sink pipe to end-of-stream
CallerRead(name) ==
    /\ pc = "done"
    /\ handle[name] \in {"text", "bytes"}
    /\ LET p == PipeOf(name)
       IN  /\ ~eof[p]
           /\ ~readErr
           /\ ~WriteEndOpen(fdt, SnkW(p))
           /\ spipe' = [spipe EXCEPT ![p] = <<>>]
           /\ rd' = [rd EXCEPT ![p] = @ \o spipe[p]]
           /\ readErr' = WrapperRaises(handle[name], spipe[p])
           /\ eof' = [eof EXCEPT ![p] = ~WrapperRaises(handle[name], spipe[p])]
    /\ UNCHANGED <<callerVars, workerVars, setupVars, fdt, cpipe, written, csink, bwbuf>>
    /\ UNCHANGED <<extVars, libcbuf>>

(* --------------------------- specification ------------------------------ *)
Next ==
    \/ Construct
    \/ \E name \in ChannelSet : EnterChannel(name)
    \/ EnterStart
    \/ \E name \in ChannelSet, data \in Payloads : NativeWrite(name, data)
    \/ WriteResume
    \/ Leave
    \/ Raise
    \/ WFlush
    \/ WSelect
    \/ WRead
    \/ WBufferedWrite
    \/ ExitFlush
    \/ ExitClose
    \/ ExitJoin
    \/ ExitDup2
    \/ ExitCloseSave
    \/ ExitFinish
    \/ \E name \in ChannelSet : FinallyClose(name)
    \/ Finalize
    \/ \E name \in ChannelSet : CallerRead(name)

Spec == Init /\ [][Next]_vars

\* the steps of the forwarder thread and the steps of Wurlitzer.__exit__
WorkerStep == WFlush \/ WSelect \/ WRead \/ WBufferedWrite
ExitStep ==
    ExitFlush \/ ExitClose \/ ExitJoin \/ ExitDup2 \/ ExitCloseSave \/ ExitFinish

\* Both threads are scheduled: the forwarder is a started thread whose select
\* returns after flush_interval at the latest, and __exit__ runs straight
\* through its statements.  The caller's region may run for ever.
FairSpec == Spec /\ WF_vars(WorkerStep) /\ WF_vars(ExitStep)

(* ------------------ native code using buffered stdio -------------------- *)
NextBuf ==
    \/ Next
    \/ \E name \in ChannelSet : NativePrintf(name)

SpecBuf == Init /\ [][NextBuf]_vars

(* ------------- a second session inside an active session --------------- *)
\* While `with Wurlitzer(stdout=A, stderr=None):` is active the caller enters
\* a second Wurlitzer(stdout=B, stderr=None), with the same encoding.  The
\* caller is one thread: it is inside a method of at most one session.
NestedCalls == {c \in DirectCalls : c.out = "A" /\ c.err = "none"}
InnerSink == "B"
InnerIdle == inner.pc \in {"off", "body", "done"}
NestedRest == <<cfg, pc, exc, propagated, wsink, encoding, save_fds, real_fds,
                handle, pipefd, closes, xi, pipes, names, ready, wpc, whold,
                wtarget, relayed, bwbuf, spipe, rd, eof, readErr, wr, wfd, nw,
                fault, printed>>

\* __enter__ of the second session up to the thread: _setup_pipe('stdout')
InnerEnter ==
    /\ pc = "body"
    /\ inner.pc = "off"
    /\ LET sp == SetupPipeAs(fdt, "stdout", "inner")
       IN  /\ fdt' = sp.t
           /\ inner' = [inner EXCEPT !.pc = "thread", !.save_fd = sp.save_fd,
                                     !.pipes = <<sp.pipe_out>>]
    /\ UNCHANGED <<NestedRest, cpipe, written, csink, libcbuf>>

\* thread.start() and the return of the handle
InnerStart ==
    /\ inner.pc = "thread"
    /\ inner' = [inner EXCEPT !.pc = "body", !.wpc = "flush"]
    /\ UNCHANGED <<NestedRest, fdt, cpipe, written, csink, libcbuf>>

\* the caller ends the second session: before the first one, or after the
\* first session's __exit__ has returned
InnerLeave ==
    /\ inner.pc = "body"
    /\ pc \in {"body", "done"}
    /\ inner' = [inner EXCEPT !.pc = "x_flush"]
    /\ UNCHANGED <<NestedRest, fdt, cpipe, written, csink, libcbuf>>

\* libc.fflush(c_stdout_p); libc.fflush(c_stderr_p)
InnerExitFlush ==
    /\ inner.pc = "x_flush"
    /\ IF Flushed
       THEN /\ inner' = [inner EXCEPT !.pc = "x_close"]
            /\ UNCHANGED <<cpipe, written, libcbuf>>
       ELSE /\ LibcWrite
            /\ UNCHANGED inner
    /\ UNCHANGED <<NestedRest, fdt, csink>>

\* `for real_fd in self._real_fds.values(): os.close(real_fd)`
InnerExitClose ==
    /\ inner.pc = "x_close"
    /\ fdt' = FdClose(fdt, RealFd("stdout"))
    /\ inner' = [inner EXCEPT !.pc = "x_join"]
    /\ UNCHANGED <<NestedRest, cpipe, written, csink, libcbuf>>

\* self.thread.join() of the second session
InnerExitJoin ==
    /\ inner.pc = "x_join"
    /\ inner.wpc = "done"
    /\ inner' = [inner EXCEPT !.pc = "x_restore"]
    /\ UNCHANGED <<NestedRest, fdt, cpipe, written, csink, libcbuf>>

\* os.dup2(save_fd, real_fd)
InnerExitDup2 ==
    /\ inner.pc = "x_restore"
    /\ fdt' = Restore(fdt, inner.save_fd, RealFd("stdout"))
    /\ inner' = [inner EXCEPT !.pc = "x_closesave"]
    /\ UNCHANGED <<NestedRest, cpipe, written, csink, libcbuf>>

\* mutant: the saved duplicate is left open
ReleaseSavedNot(t, save_fd) == t
\* os.close(save_fd): the table afterwards
ReleaseSaved(t, save_fd) == FdClose(t, save_fd)

\* os.close(save_fd), self._finish_handle() and the return of __exit__
InnerExitCloseSave ==
    /\ inner.pc = "x_closesave"
    /\ fdt' = ReleaseSaved(fdt, inner.save_fd)
    /\ inner' = [inner EXCEPT !.pc = "done"]
    /\ UNCHANGED <<NestedRest, cpipe, written, csink, libcbuf>>

\* the forwarder of the second session: fflush, select, read
InnerWFlush ==
    /\ inner.wpc = "flush"
    /\ IF Flushed
       THEN /\ inner' = [inner EXCEPT !.wpc = "select"]
            /\ UNCHANGED <<cpipe, written, libcbuf>>
       ELSE /\ LibcWrite
            /\ UNCHANGED inner
    /\ UNCHANGED <<NestedRest, fdt, csink>>

InnerWSelect ==
    /\ inner.wpc = "select"
    /\ inner' = [inner EXCEPT
                   !.ready = SelectReady(inner.pipes),
                   !.wpc = IF SelectReady(inner.pipes) = <<>> THEN "flush"
                           ELSE "read"]
    /\ UNCHANGED <<NestedRest, fdt, cpipe, written, csink, libcbuf>>

InnerWRead ==
    /\ inner.wpc = "read"
    /\ inner.ready # <<>>
    /\ LET fd == Head(inner.ready)
           c == CapOfR(fdt[fd])
           data == ReadData(cpipe[c])
           left == IF data = <<>> THEN ListRemove(inner.pipes, fd)
                   ELSE inner.pipes
       IN  /\ cpipe' = [cpipe EXCEPT ![c] = ReadRest(@)]
           /\ csink' = [csink EXCEPT ![InnerSink] = @ \o Decode(data)]
           /\ inner' = [inner EXCEPT
                          !.pipes = left,
                          !.ready = Tail(inner.ready),
                          !.wpc = AfterRead(Tail(inner.ready), left)]
    /\ UNCHANGED <<NestedRest, fdt, written, libcbuf>>

\* the steps of the caller's thread in the first session
OuterStep ==
    \/ Construct
    \/ \E name \in ChannelSet : EnterChannel(name)
    \/ EnterStart
    \/ \E name \in ChannelSet, data \in Payloads : NativeWrite(name, data)
    \/ WriteResume
    \/ Leave
    \/ Raise
    \/ ExitStep
\* the steps of the caller's thread in the second session
InnerStep ==
    \/ InnerEnter
    \/ InnerStart
    \/ InnerLeave
    \/ InnerExitFlush
    \/ InnerExitClose
    \/ InnerExitJoin
    \/ InnerExitDup2
    \/ InnerExitCloseSave
OuterWorkerStep == WFlush \/ WSelect \/ WRead
InnerWorkerStep == InnerWFlush \/ InnerWSelect \/ InnerWRead

NextNested ==
    \/ InnerIdle /\ OuterStep
    \/ InnerStep
    \/ OuterWorkerStep
    \/ InnerWorkerStep

InitNested == Init /\ cfg \in NestedCalls

SpecNested == InitNested /\ [][NextNested]_vars

\* the caller's thread runs on and ends both sessions
CallerRuns ==
    \/ InnerIdle /\ (Construct \/ (\E name \in ChannelSet : EnterChannel(name))
                               \/ EnterStart \/ WriteResume \/ Leave \/ ExitStep)
    \/ InnerStep

\* The caller's thread and the two forwarder threads are all scheduled.
FairNested ==
    /\ SpecNested
    /\ WF_vars(CallerRuns)
    /\ WF_vars(OuterWorkerStep)
    /\ WF_vars(InnerWorkerStep)

(* --------------------------- failing steps ------------------------------ *)
\* Neither __enter__ nor __exit__ has a try statement: an error raised by one
\* of their statements leaves the method at once.  `with` does not call
\* __exit__ when __enter__ raised; capture's finally clause runs in both cases.
UnwindPc(c) == IF c.entry = "wurlitzer" THEN "done" ELSE "fin_stdout"

EnterFailPoints == {"dup", "pipe", "dup2", "fcntl"}

\* the table when _setup_pipe(name) raises at the given call
SetupPipeUpTo(t, name, at) ==
    LET save_fd == LowestFree(t)
        t1 == [t EXCEPT ![save_fd] = t[RealFd(name)]]
        pp == OpenPipe(t1, CapR(name), CapW(name))
    IN  CASE at = "dup"   -> t
          [] at = "pipe"  -> t1
          [] at = "dup2"  -> pp.t
          [] at = "fcntl" -> SetupPipe(t, name).t

\* _setup_pipe(name) raises OSError at os.dup, os.pipe, os.dup2 or fcntl
EnterFail(name, at) ==
    /\ pc = (IF name = "stdout" THEN "enter_stdout" ELSE "enter_stderr")
    /\ wsink[name] # "none"
    /\ fault = NoFault
    /\ fdt' = SetupPipeUpTo(fdt, name, at)
    /\ save_fds' = IF at = "dup" THEN save_fds
                   ELSE [save_fds EXCEPT ![name] = LowestFree(fdt)]
    /\ real_fds' = IF at = "fcntl"
                   THEN Append(real_fds, <<name, RealFd(name)>>) ELSE real_fds
    /\ fault' = <<at, name>>
    /\ exc' = TRUE
    /\ pc' = UnwindPc(cfg)
    /\ propagated' = (cfg.entry = "wurlitzer")
    /\ UNCHANGED <<handle, pipefd, closes, xi, wr, wfd, nw>>
    /\ UNCHANGED <<workerVars, setupVars, readerVars, cpipe, written, csink,
                   bwbuf, spipe>>
    /\ UNCHANGED <<libcbuf, printed, inner>>

\* self.thread.start() raises RuntimeError (no new thread can be started)
StartFail ==
    /\ pc = "enter_thread"
    /\ fault = NoFault
    /\ fault' = <<"thread", "none">>
    /\ exc' = TRUE
    /\ pc' = UnwindPc(cfg)
    /\ propagated' = (cfg.entry = "wurlitzer")
    /\ UNCHANGED <<save_fds, real_fds, handle, pipefd, closes, xi, wr, wfd, nw,
                   fdt>>
    /\ UNCHANGED <<workerVars, setupVars, readerVars, cpipe, written, csink,
                   bwbuf, spipe>>
    /\ UNCHANGED <<libcbuf, printed, inner>>

\* os.close(real_fd) of __exit__ raises OSError; whether the descriptor has
\* been released when close fails depends on the error
ExitCloseFail(released) ==
    /\ pc = "x_close"
    /\ xi <= Len(real_fds)
    /\ fault = NoFault
    /\ fdt' = IF released THEN FdClose(fdt, real_fds[xi][2]) ELSE fdt
    /\ fault' = <<"close", real_fds[xi][1]>>
    /\ exc' = TRUE
    /\ pc' = UnwindPc(cfg)
    /\ propagated' = (cfg.entry = "wurlitzer")
    /\ UNCHANGED <<save_fds, real_fds, handle, pipefd, closes, xi, wr, wfd, nw>>
    /\ UNCHANGED <<workerVars, setupVars, readerVars, cpipe, written, csink,
                   bwbuf, spipe>>
    /\ UNCHANGED <<libcbuf, printed, inner>>

\* os.dup2(save_fd, real_fd) of __exit__ raises OSError
ExitDup2Fail ==
    /\ pc = "x_restore"
    /\ xi <= Len(real_fds)
    /\ fault = NoFault
    /\ fault' = <<"restore", real_fds[xi][1]>>
    /\ exc' = TRUE
    /\ pc' = UnwindPc(cfg)
    /\ propagated' = (cfg.entry = "wurlitzer")
    /\ UNCHANGED <<save_fds, real_fds, handle, pipefd, closes, xi, wr, wfd, nw,
                   fdt>>
    /\ UNCHANGED <<workerVars, setupVars, readerVars, cpipe, written, csink,
                   bwbuf, spipe>>
    /\ UNCHANGED <<libcbuf, printed, inner>>

\* os.read(pipe, 1024) or handler(data) raises inside the forwarder: nothing
\* in the thread catches it, so the thread terminates
WorkerFail ==
    /\ wpc = "read"
    /\ ready # <<>>
    /\ fault = NoFault
    /\ fault' = <<"worker", names[Head(ready)]>>
    /\ wpc' = "done"
    /\ UNCHANGED <<pipes, names, ready, whold, wtarget, relayed>>
    /\ UNCHANGED <<callerVars, setupVars, readerVars, fdt, cpipe, written, csink,
                   bwbuf, spipe>>
    /\ UNCHANGED <<libcbuf, printed, inner>>

NextFail ==
    \/ Next
    \/ \E name \in ChannelSet, at \in EnterFailPoints : EnterFail(name, at)
    \/ StartFail
    \/ \E released \in BOOLEAN : ExitCloseFail(released)
    \/ ExitDup2Fail
    \/ WorkerFail

SpecFail == Init /\ [][NextFail]_vars

(* ------------------------------ properties ------------------------------ *)
\* Wurlitzer.__exit__ has returned
SessionEnded == pc \in {"fin_stdout", "fin_stderr", "done"}
\* the session has redirected the channel
Captured(name) == wsink[name] # "none"
\* the caller asked for the channel to be piped back
PipeBack(name) == cfg.entry = "capture" /\ (IF name = "stdout" THEN cfg.out ELSE cfg.err) = "PIPE"
\* the bytes written to a real descriptor, as items of a capture pipe
Tagged(name) == [i \in 1..Len(written[name]) |-> <<name, written[name][i]>>]
Proj(seq, name) == SelectSeq(seq, LAMBDA it : it[1] = name)
AllAscii(bytes) == \A i \in 1..Len(bytes) : IsAscii(bytes[i])
\* everything a sink has been written, in order
Recv(s) ==
    IF s \in CallerSinks THEN csink[s]
    ELSE IF s \in SinkPipes
         THEN rd[s] \o spipe[s] \o bwbuf[s] \o (IF wtarget = s THEN whold ELSE <<>>)
    ELSE <<>>
\* the part of a sink's content that a channel accounts for
Share(s, name) ==
    IF wsink["stdout"] = wsink["stderr"] THEN Proj(Recv(s), name) ELSE Recv(s)
\* the bytes of channel `name` went through the forwarder to the sink intact
DeliveredExactly(name) ==
    /\ relayed[name] = Tagged(name)
    /\ encoding = "none" => Share(wsink[name], name) = Raw(Tagged(name))
    /\ (encoding # "none" /\ AllAscii(written[name]))
           => Share(wsink[name], name) = DecodeReplace(Tagged(name))

\* C1: once session end has returned, the stdout sink has received exactly the
\* bytes written to the redirected stdout descriptor during the session: the
\* forwarder handed every byte to the stdout handler once and in write order,
\* and the sink holds them unchanged (as raw bytes without an encoding, as their
\* text when they are ASCII under an encoding).
C1_StdoutDelivered ==
    (SessionEnded /\ Captured("stdout")) => DeliveredExactly("stdout")
C1_Witness ==
    /\ pc = "done"
    /\ wsink["stdout"] = "A"
    /\ encoding = "none"
    /\ nw = 2
    /\ Len(written["stdout"]) = PipeCap + 2
    /\ csink["A"] = Raw(Tagged("stdout"))

\* C2: after session end every redirected real descriptor is bound to its
\* original target again, and the real descriptor of a channel that is not
\* captured is never rebound by any step.
C2_Restored ==
    /\ [](SessionEnded =>
            \A name \in ChannelSet :
                Captured(name) => fdt[RealFd(name)] = OrigTarget(name))
    /\ [][\A name \in ChannelSet :
            wsink'[name] = "none" => fdt'[RealFd(name)] = fdt[RealFd(name)]]_vars
C2_Witness ==
    /\ pc = "done"
    /\ Captured("stdout") /\ Captured("stderr")
    /\ written["stdout"] # <<>> /\ written["stderr"] # <<>>
    /\ fdt[1] = "tty_out" /\ fdt[2] = "tty_err"

\* C3: after the session has ended every descriptor it created is closed: the
\* open descriptors are those open before, apart from the read ends of sink
\* pipes handed to the caller.
C3_NoDescriptorLeak ==
    pc = "done" =>
        \A fd \in Fds :
            IsOpen(fdt, fd) => (fd \in {0, 1, 2} \/ fdt[fd] \in {SnkR("PO"), SnkR("PE")})

\* C4: when the region raises, the whole teardown has run by the time capture
\* is left: no write end of a capture pipe is open, the forwarder has been
\* joined, the real descriptors are bound to their original targets, the saved
\* duplicates are closed, the writers of the sink pipes are closed, and the
\* error propagates.
C4_TeardownOnError ==
    (pc = "done" /\ exc) =>
        /\ wpc = "done"
        /\ \A name \in ChannelSet :
            /\ fdt[RealFd(name)] = OrigTarget(name)
            /\ ~WriteEndOpen(fdt, CapW(name))
            /\ Captured(name) => ~IsOpen(fdt, save_fds[name])
            /\ PipeBack(name) =>
                   (closes[PipeOf(name)] = 1 /\ ~WriteEndOpen(fdt, SnkW(PipeOf(name))))
        /\ propagated
C4_Witness ==
    /\ pc = "done"
    /\ exc
    /\ cfg.out = "PIPE" /\ cfg.err = "B"
    /\ written["stdout"] # <<>> /\ written["stderr"] # <<>>
    /\ closes["PO"] = 1

\* C5: a single native write larger than the pipe capacity never deadlocks the
\* session: until capture has been left, some step of the caller or of the
\* forwarder is possible.
C5_NoDeadlock ==
    (nw = 1 /\ \E name \in ChannelSet : Captured(name) /\ written[name] = BigPayload)
        => (pc = "done" \/ ENABLED Next)

\* C6: without the merge, with distinct sinks, nothing written to the real
\* stderr descriptor reaches the stdout sink and nothing written to the real
\* stdout descriptor reaches the stderr sink.
C6_NoCrossDelivery ==
    (wsink["stdout"] # wsink["stderr"]) =>
        \A name \in ChannelSet :
            \A i \in 1..Len(Recv(wsink[name])) : Recv(wsink[name])[i][1] = name
C6_Witness ==
    /\ wsink["stdout"] = "A" /\ wsink["stderr"] = "B"
    /\ csink["A"] # <<>> /\ csink["B"] # <<>>
    /\ cpipe["stdout"] # <<>> /\ cpipe["stderr"] # <<>>

\* C7: with stderr=STDOUT, after session end the one shared sink holds every
\* byte written to fd 1 and every byte written to fd 2, each once and each
\* channel's bytes in that channel's write order.
C7_MergedDelivery ==
    (SessionEnded /\ cfg.err = "STDOUT" /\ Captured("stdout")) =>
        /\ wsink["stderr"] = wsink["stdout"]
        /\ \A name \in ChannelSet :
            /\ relayed[name] = Tagged(name)
            /\ encoding = "none" =>
                   Proj(Recv(wsink["stdout"]), name) = Raw(Tagged(name))
            /\ (encoding # "none" /\ AllAscii(written[name])) =>
                   Proj(Recv(wsink["stdout"]), name) = DecodeReplace(Tagged(name))
C7_Witness ==
    /\ pc = "done"
    /\ cfg.err = "STDOUT"
    /\ wsink["stdout"] = "A"
    /\ encoding = "none"
    /\ written["stdout"] # <<>> /\ written["stderr"] # <<>>
    /\ Len(csink["A"]) = Len(written["stdout"]) + Len(written["stderr"])

\* C8: with an encoding configured, malformed bytes never make any step of the
\* delivery path raise, the caller's read of a returned text handle included.
C8_DecodeNeverRaises == (cfg.enc # "none") => ~readErr

\* C9: in pipe-back mode, once capture has been left the writer of each sink
\* pipe has been closed exactly once, the caller's read obtains all captured
\* bytes and then end-of-stream, and a discarded channel's handle is None; the
\* same with stderr=STDOUT sharing stdout's pipe.
C9_PipeBackClosed ==
    (pc = "done" /\ cfg.entry = "capture") =>
        \A name \in ChannelSet :
            LET p == PipeOf(name)
            IN  /\ PipeBack(name) =>
                    /\ closes[p] = 1
                    /\ ~WriteEndOpen(fdt, SnkW(p))
                    /\ bwbuf[p] = <<>>
                    /\ \A ch \in ChannelSet :
                         Proj(rd[p] \o spipe[p], ch) =
                             (IF wsink[ch] = p THEN Raw(Tagged(ch)) ELSE <<>>)
                    /\ eof[p] => (spipe[p] = <<>> /\ handle[name] \in {"text", "bytes"})
                /\ ~PipeBack(name) => closes[p] = 0
                /\ (IF name = "stdout" THEN cfg.out ELSE cfg.err) = "none"
                       => handle[name] = "None"
C9_Witness ==
    /\ pc = "done"
    /\ cfg.out = "PIPE" /\ cfg.err = "STDOUT"
    /\ eof["PO"]
    /\ Proj(rd["PO"], "stdout") # <<>> /\ Proj(rd["PO"], "stderr") # <<>>

\* C10: after redirect_everything_to_sys has returned the session stays active:
\* the real descriptors stay bound to the capture pipes, the forwarder keeps
\* running and no step of the teardown is executed.
C10_StaysActive ==
    (cfg.entry = "forever" /\ pc \notin {"start", "enter_stdout", "enter_stderr", "enter_thread"})
        => /\ pc \in {"body", "write"}
           /\ fdt[1] = CapW("stdout") /\ fdt[2] = CapW("stderr")
           /\ wpc \notin {"unstarted", "done"}

\* C15: in every execution of session end, each redirected real descriptor
\* (the only write end of its pipe) is closed before the join, the forwarder
\* has seen end-of-stream on every read end and left its loop before any real
\* descriptor is rebound to its saved duplicate, and a saved duplicate is
\* closed only after it has been rebound onto its real descriptor; so the join
\* never waits on a pipe whose write end stays open.
C15_TeardownOrder ==
    /\ []((pc = "x_close" /\ xi > Len(real_fds)) =>
            \A name \in ChannelSet : ~WriteEndOpen(fdt, CapW(name)))
    /\ [][\A name \in ChannelSet :
            /\ (Captured(name) /\ fdt[RealFd(name)] # OrigTarget(name)
                               /\ fdt'[RealFd(name)] = OrigTarget(name))
                   => (wpc = "done" /\ pipes = <<>>
                       /\ \A n2 \in ChannelSet : ~WriteEndOpen(fdt, CapW(n2)))
            /\ (save_fds[name] >= 0 /\ IsOpen(fdt, save_fds[name])
                                    /\ ~IsOpen(fdt', save_fds[name]))
                   => fdt[RealFd(name)] = fdt[save_fds[name]]]_vars
C15_Witness ==
    /\ pc = "done"
    /\ Len(real_fds) = 2
    /\ wpc = "done" /\ pipes = <<>>
    /\ \A name \in ChannelSet :
         /\ relayed[name] # <<>>
         /\ fdt[RealFd(name)] = OrigTarget(name)
         /\ ~IsOpen(fdt, save_fds[name])

\* C17: with an encoding and a caller-supplied sink, the text written to the
\* sink is the decoding of the whole byte stream of the channel whenever that
\* stream is validly encoded, however the reads of the forwarder split it.
C17_SoundBytesDecoded ==
    \A name \in ChannelSet :
        (SessionEnded /\ encoding # "none" /\ wsink[name] \in CallerSinks
                      /\ WellFormed(Raw(Tagged(name))))
            => Share(wsink[name], name) = DecodeReplace(Tagged(name))

\* C18: a caller-supplied sink is given text exactly when capture was called
\* with an encoding, whatever the mode of the other channel.
C18_FormFollowsEncoding ==
    \A s \in CallerSinks :
        \A i \in 1..Len(csink[s]) :
            csink[s][i][2] = (IF cfg.enc # "none" THEN "t" ELSE "b")

\* the channel's real descriptor has been closed by session end and not yet
\* rebound: between its os.close(real_fd) and its os.dup2(save_fd, real_fd)
InWindow(name) ==
    \E i \in 1..Len(real_fds) :
        /\ real_fds[i][1] = name
        /\ \/ pc = "x_close" /\ i < xi
           \/ pc = "x_restore" /\ i >= xi
           \/ pc = "x_closesave" /\ i > xi

\* C19 as stated: a real descriptor slot is at every instant open, bound to
\* the session's capture pipe or to the original target.
C19_SlotNeverClosed ==
    \A name \in ChannelSet : fdt[RealFd(name)] \in {CapW(name), OrigTarget(name)}

\* C19, amended: the slot is bound to the capture pipe or to the original
\* target at every instant outside the window between the os.close(real_fd) of
\* session end and the os.dup2 that restores it; inside that window the
\* session leaves the slot closed.
C19_SlotClosedOnlyInWindow ==
    \A name \in ChannelSet :
        /\ InWindow(name) => fdt[RealFd(name)] = "free"
        /\ ~InWindow(name) => fdt[RealFd(name)] \in {CapW(name), OrigTarget(name)}
        /\ (Captured(name) /\ pc \in {"body", "write", "x_flush"})
               => fdt[RealFd(name)] = CapW(name)
C19_Witness ==
    /\ InWindow("stdout") /\ InWindow("stderr")
    /\ pc = "x_close"
    /\ wpc # "done"
    /\ fdt[1] = "free" /\ fdt[2] = "free"

\* C14: the forwarder terminates whenever its set of read ends is empty; in
\* particular, once a session that redirects no channel reaches session end,
\* the forwarder exits and the join of Wurlitzer.__exit__ returns.
C14_ZeroChannelJoinReturns ==
    (pc = "x_flush" /\ real_fds = <<>> /\ pipes = <<>>)
        ~> (wpc = "done" /\ pc \notin {"x_flush", "x_close"})

\* a descriptor the session made is still open: a duplicate of an original
\* target above the standard descriptors, or an end of a capture pipe
SessionFdOpen ==
    \E fd \in Fds :
        \/ fd > 2 /\ fdt[fd] \in {OrigTarget(n) : n \in ChannelSet}
        \/ fdt[fd] \in {CapR(n) : n \in ChannelSet} \cup {CapW(n) : n \in ChannelSet}

\* C11: when a step of session start has failed and the error has reached the
\* caller, every real descriptor is bound to its original target and no
\* descriptor made during the attempt is open.
C11_StartFailsClosed ==
    (pc = "done" /\ fault[1] \in EnterFailPoints \cup {"thread"})
        => /\ propagated
           /\ \A name \in ChannelSet : fdt[RealFd(name)] = OrigTarget(name)
           /\ ~SessionFdOpen

\* C12: when closing or restoring one channel's real descriptor has failed in
\* session end, the other channel is nevertheless restored (real descriptor
\* rebound to the original, saved duplicate closed) and the caller gets the error.
C12_ChannelsIndependent ==
    (pc = "done" /\ fault[1] \in {"close", "restore"})
        => /\ propagated
           /\ \A name \in ChannelSet :
                (Captured(name) /\ name # fault[2])
                    => /\ fdt[RealFd(name)] = OrigTarget(name)
                       /\ ~IsOpen(fdt, save_fds[name])

\* C13: when a read or a handler has failed inside the forwarder, session end
\* hands the error to the caller, and the descriptors are restored.
C13_WorkerErrorSurfaced ==
    (pc = "done" /\ fault[1] = "worker")
        => /\ propagated
           /\ \A name \in ChannelSet : fdt[RealFd(name)] = OrigTarget(name)

\* the items of a sequence of pipe or sink items that carry the stdio byte
StdioItems(seq) == SelectSeq(seq, LAMBDA it : it[Len(it)] = Byte.stdio)

\* C16: once session end has returned, libc's buffer of a captured channel is
\* empty, and every byte native code handed to the buffered stream during the
\* session went through the capture pipe and the forwarder to the sink.
C16_TrailingFlushed ==
    \A name \in ChannelSet :
        (SessionEnded /\ Captured(name))
            => /\ libcbuf[name] = <<>>
               /\ StdioItems(relayed[name])
                     = [i \in 1..Len(printed[name]) |-> <<name, printed[name][i]>>]
               /\ Len(StdioItems(Share(wsink[name], name))) = Len(printed[name])
               /\ cpipe[name] = <<>>
C16_Witness ==
    /\ pc = "done"
    /\ wsink["stdout"] = "A"
    /\ printed["stdout"] = <<Byte.stdio, Byte.stdio>>
    /\ Len(csink["A"]) = 2
    /\ relayed["stdout"] = Tagged("stdout")

\* both sessions have ended, both forwarders have terminated and descriptor 1
\* is bound to what it was bound to before the first session
NestedAllDone ==
    /\ pc = "done" /\ inner.pc = "done"
    /\ wpc = "done" /\ inner.wpc = "done"
    /\ fdt[RealFd("stdout")] = OrigTarget("stdout")

\* C20 as stated: with two sessions active on stdout, in whichever order the
\* caller ends them, both forwarders terminate, both session ends return and
\* descriptor 1 is bound to its original target.
C20_AnyOrderEnds == (pc = "body" /\ inner.pc = "body") ~> NestedAllDone

\* C20, amended: when the caller ends the second (inner) session while the
\* first is still active, both forwarders terminate, both session ends return
\* and descriptor 1 is bound to its original target.
C20_InnerFirstEnds == (pc = "body" /\ inner.pc = "x_flush") ~> NestedAllDone
C20_Witness ==
    /\ NestedAllDone
    /\ csink["A"] # <<>>
    /\ csink[InnerSink] # <<>>
    /\ \A fd \in Fds : fdt[fd] \notin {CapW(id) : id \in PipeIds}

=============================================================================
